---------------------------- MODULE Spec2Model ----------------------------
(***************************************************************************)
(* Model of the fixture generators of scripts/: order identifiers,         *)
(* transfer identifiers, random timestamps and closed-order records.       *)
(*                                                                         *)
(* Numbers.  Python floats are modelled in two ways, chosen by what the    *)
(* code does with them:                                                    *)
(*   - timestamps are counted in "ticks", the spacing of IEEE doubles in   *)
(*     [2^30, 2^31) seconds (2^-22 s), the binade that holds both START    *)
(*     and END; datetimes are counted in microseconds.  Both are offsets   *)
(*     from START, which is a whole second and so lies on both grids.      *)
(*     A float sum is rounded to the nearest tick, ties to even; the       *)
(*     product random() * diff is kept exact before the sum is rounded.    *)
(*     The local-time conversions of timestamp() and fromtimestamp()       *)
(*     cancel and are left out.                                            *)
(*   - prices, volumes, cost and fee are exact decimals (a digit sequence  *)
(*     and a scale) in place of binary doubles, whose relative error of    *)
(*     2^-53 is far below the formatted precisions; format() rounds them   *)
(*     half-even to a digit string.                                        *)
(* The random source is a value k / RandDen with k in 0 .. RandDen - 1.    *)
(***************************************************************************)
EXTENDS Integers, Sequences, FiniteSets, TLC

\* ---------------------------------------------------------------- bounds
\* random() returns a multiple of 2^-RandBits in [0, 1) (2^-53 in CPython).
RandBits == 5
\* Length of the historical window [START, END) in microseconds.
WindowUs == 2
\* Largest datetime (in microseconds) passed to gen_random_timestamp.
MaxUs == 3
\* Sampled draw sequences repeat with this period.
RandPeriod == 2
\* Largest count n passed to the identifier list generators.
MaxCount == 2

RECURSIVE Pow(_, _)
Pow(b, n) == IF n = 0 THEN 1 ELSE b * Pow(b, n - 1)

RandDen == Pow(2, RandBits)
\* Every value of the random source, as a numerator over RandDen.
Random == 0 .. (RandDen - 1)
\* The sample of the random source used where a call draws several times:
\* the smallest value, the largest, and two in between.
RandDraws == {0, (RandDen \div 4) - 1, (RandDen \div 2) + 2, RandDen - 1}
\* Sequences of n draws, periodic with period RandPeriod.
DrawSeqs(n) ==
    { [i \in 1 .. n |-> p[((i - 1) % RandPeriod) + 1]] :
        p \in [1 .. RandPeriod -> RandDraws] }

\* ------------------------------------------------------ natural numbers
\* A natural number is its sequence of decimal digits, least significant
\* first; <<>> is zero.
Dig(a, i) == IF i <= Len(a) THEN a[i] ELSE 0

RECURSIVE NatOfInt(_)
NatOfInt(n) == IF n = 0 THEN <<>> ELSE <<n % 10>> \o NatOfInt(n \div 10)

RECURSIVE NatNorm(_)
NatNorm(a) ==
    IF a = <<>> THEN a
    ELSE IF a[Len(a)] = 0 THEN NatNorm(SubSeq(a, 1, Len(a) - 1)) ELSE a

RECURSIVE NatAddFrom(_, _, _, _)
NatAddFrom(a, b, i, c) ==
    IF i > Len(a) /\ i > Len(b)
    THEN (IF c = 0 THEN <<>> ELSE <<c>>)
    ELSE LET s == Dig(a, i) + Dig(b, i) + c
         IN  <<s % 10>> \o NatAddFrom(a, b, i + 1, s \div 10)

NatAdd(a, b) == NatAddFrom(a, b, 1, 0)

\* a - b for a >= b.
RECURSIVE NatSubFrom(_, _, _, _)
NatSubFrom(a, b, i, c) ==
    IF i > Len(a) THEN <<>>
    ELSE LET s == Dig(a, i) - Dig(b, i) - c
         IN  IF s < 0 THEN <<s + 10>> \o NatSubFrom(a, b, i + 1, 1)
             ELSE <<s>> \o NatSubFrom(a, b, i + 1, 0)

NatSub(a, b) == NatNorm(NatSubFrom(a, b, 1, 0))

\* Column t of the long multiplication of a by b: the sum of a[i] * b[t + 1 - i]
\* over the i from i up.
RECURSIVE NatColumn(_, _, _, _)
NatColumn(a, b, t, i) ==
    IF i > Len(a) \/ i > t THEN 0
    ELSE a[i] * Dig(b, t + 1 - i) + NatColumn(a, b, t, i + 1)

\* The digits of the number whose columns (least significant first) are v.
RECURSIVE NatCarryFrom(_, _, _)
NatCarryFrom(v, i, c) ==
    IF i > Len(v) THEN (IF c = 0 THEN <<>> ELSE NatOfInt(c))
    ELSE LET s == v[i] + c
         IN  <<s % 10>> \o NatCarryFrom(v, i + 1, s \div 10)

NatMul(a, b) ==
    LET cols == [t \in 1 .. (Len(a) + Len(b)) |-> NatColumn(a, b, t, 1)]
    IN  NatNorm(NatCarryFrom(cols, 1, 0))

\* a < b, a = b: compared from the most significant digit down.
RECURSIVE NatLessFrom(_, _, _)
NatLessFrom(a, b, i) ==
    IF i = 0 THEN FALSE
    ELSE IF Dig(a, i) # Dig(b, i) THEN Dig(a, i) < Dig(b, i)
    ELSE NatLessFrom(a, b, i - 1)

NatLess(a, b) == NatLessFrom(a, b, IF Len(a) > Len(b) THEN Len(a) ELSE Len(b))
NatLeq(a, b) == ~NatLess(b, a)
NatIsZero(a) == \A i \in 1 .. Len(a) : a[i] = 0

Zeros(n) == [i \in 1 .. n |-> 0]
\* a * 10^n.
NatShift(a, n) == Zeros(n) \o a

\* ------------------------------------------------------------- decimals
\* A non-negative decimal m / 10^s.
Decimal(m, s) == [m |-> m, s |-> s]
DecOfInt(n) == Decimal(NatOfInt(n), 0)
MaxOf(a, b) == IF a > b THEN a ELSE b
\* The digits of x at scale s >= x.s.
AtScale(x, s) == NatShift(x.m, s - x.s)

DecAdd(x, y) ==
    LET s == MaxOf(x.s, y.s) IN Decimal(NatAdd(AtScale(x, s), AtScale(y, s)), s)
\* x - y for x >= y.
DecSub(x, y) ==
    LET s == MaxOf(x.s, y.s) IN Decimal(NatSub(AtScale(x, s), AtScale(y, s)), s)
DecMul(x, y) == Decimal(NatMul(x.m, y.m), x.s + y.s)
DecLess(x, y) ==
    LET s == MaxOf(x.s, y.s) IN NatLess(AtScale(x, s), AtScale(y, s))
DecLeq(x, y) == ~DecLess(y, x)
DecEq(x, y) == DecLeq(x, y) /\ DecLeq(y, x)
\* |x - y|.
DecDist(x, y) == IF DecLess(x, y) THEN DecSub(y, x) ELSE DecSub(x, y)

\* ------------------------------------------------------- format, float
DigitChars == <<"0", "1", "2", "3", "4", "5", "6", "7", "8", "9">>
DigitOfChar(c) == CHOOSE v \in 0 .. 9 : DigitChars[v + 1] = c

\* The natural number nearest to m / 10^drop, ties to even (drop >= 1).
NatRound(m, drop) ==
    LET kept == IF drop >= Len(m) THEN <<>> ELSE SubSeq(m, drop + 1, Len(m))
        top  == Dig(m, drop)
        rest == \E i \in 1 .. (drop - 1) : Dig(m, i) # 0
        up   == top > 5 \/ (top = 5 /\ (rest \/ Dig(kept, 1) % 2 = 1))
    IN  IF up THEN NatAdd(kept, <<1>>) ELSE kept

\* Mutant of decimal_formatter: the fixed specification "0.5f".
decimal_formatter_fixed(decimals) == [fill |-> "0", precision |-> 5, type |-> "f"]

\* The format specification f"0.{decimals}f": zero fill, no width, fixed
\* point with `decimals` digits after the point.
decimal_formatter(decimals) == [fill |-> "0", precision |-> decimals, type |-> "f"]

\* format(x, fmt) for x >= 0: the integer digits (at least one), a point,
\* and fmt.precision digits, as a sequence of characters.
format(x, fmt) ==
    LET d    == fmt.precision
        n    == NatNorm(IF x.s <= d THEN AtScale(x, d) ELSE NatRound(x.m, x.s - d))
        ilen == IF Len(n) > d THEN Len(n) - d ELSE 1
    IN  [i \in 1 .. ilen |-> DigitChars[Dig(n, d + ilen + 1 - i) + 1]]
        \o <<".">>
        \o [i \in 1 .. d |-> DigitChars[Dig(n, d + 1 - i) + 1]]

\* float(s) for a string of digits with one point.
PointAt(s) == CHOOSE i \in 1 .. Len(s) : s[i] = "."
DecOfString(s) ==
    LET p == PointAt(s)
        digs == SubSeq(s, 1, p - 1) \o SubSeq(s, p + 1, Len(s))
        k == Len(digs)
    IN  Decimal([i \in 1 .. k |-> DigitOfChar(digs[k + 1 - i])], Len(s) - p)
\* The number of digits after the point.
DecimalsOf(s) == Len(s) - PointAt(s)

\* ------------------------------------------------------------- constants
UPPER_ALPHA_NUMERIC ==
    << "A", "B", "C", "D", "E", "F", "G", "H", "I", "J", "K", "L", "M",
       "N", "O", "P", "Q", "R", "S", "T", "U", "V", "W", "X", "Y", "Z",
       "0", "1", "2", "3", "4", "5", "6", "7", "8", "9" >>
ALL_ALPHA_NUMERIC ==
    << "A", "B", "C", "D", "E", "F", "G", "H", "I", "J", "K", "L", "M",
       "N", "O", "P", "Q", "R", "S", "T", "U", "V", "W", "X", "Y", "Z",
       "a", "b", "c", "d", "e", "f", "g", "h", "i", "j", "k", "l", "m",
       "n", "o", "p", "q", "r", "s", "t", "u", "v", "w", "x", "y", "z",
       "0", "1", "2", "3", "4", "5", "6", "7", "8", "9" >>
\* datetime(2020, 1, 1): the origin of the model's time axis, in microseconds.
START == 0
\* datetime(2024, 1, 1): WindowUs microseconds after START.
END == START + WindowUs

VOLUME_MIN == Decimal(<<1>>, 1)
VOLUME_MAX == 1000
PRICE_MIN == Decimal(<<1>>, 4)
PRICE_MAX == 50000
OPEN_ORDER_STATUSES == <<"pending", "open">>
OVER_ORDER_STATUSES == <<"canceled", "closed", "expired">>
ORDER_STATUSES == OPEN_ORDER_STATUSES \o OVER_ORDER_STATUSES
\* The fee rate 0.0026 of gen_random_closed_order.
FEE_RATE == Decimal(<<6, 2>>, 4)
\* Python's None.
None == "<None>"

\* ------------------------------------------------------ the random module
\* random(): the draw k as the decimal k / 2^RandBits = k * 5^RandBits / 10^RandBits.
random(k) == Decimal(NatOfInt(k * Pow(5, RandBits)), RandBits)
\* random.uniform(a, b) = a + (b - a) * random().
uniform(a, b, k) == DecAdd(a, DecMul(DecSub(b, a), random(k)))
\* random.randint(a, b): a uniformly chosen integer of a .. b.
randint(a, b, k) == a + (k * (b - a + 1)) \div RandDen
\* random.choice(seq): a uniformly chosen element.
choice(seq, k) == seq[(k * Len(seq)) \div RandDen + 1]
\* random.choices(population, k=n): one element per draw of ds,
\* population[floor(random() * len(population))].
choices(population, ds) ==
    [i \in 1 .. Len(ds) |-> population[(ds[i] * Len(population)) \div RandDen + 1]]

\* ------------------------------------------------------------ timestamps
\* One microsecond is TickNum / TickDen ticks (10^-6 s * 2^22 ticks per s).
TickNum == 65536
TickDen == 15625
\* The integer nearest to n / d, ties to even (IEEE round-to-nearest-even,
\* and the rounding of datetime.fromtimestamp).
RoundHalfEven(n, d) ==
    LET q == n \div d
        r == n % d
    IN  IF 2 * r > d \/ (2 * r = d /\ q % 2 = 1) THEN q + 1 ELSE q
\* datetime.timestamp(): the float nearest to the datetime, in ticks.
timestamp(dt) == RoundHalfEven(dt * TickNum, TickDen)
\* datetime.fromtimestamp(t): the datetime nearest to the float t, in microseconds.
fromtimestamp(t) == RoundHalfEven(t * TickDen, TickNum)

\* Mutant of gen_random_timestamp: diff taken as the sum of the two timestamps.
gen_random_timestamp_sum(start, end, k) ==
    LET diff == timestamp(end) + timestamp(start)
    IN  RoundHalfEven(timestamp(start) * RandDen + k * diff, RandDen)

\* gen_random_timestamp(start, end) with random() = k / RandDen:
\*   diff = end.timestamp() - start.timestamp()   (exact: both in one binade)
\*   rand = random() * diff
\*   return start.timestamp() + rand              (rounded to the float grid)
gen_random_timestamp(start, end, k) ==
    LET diff == timestamp(end) - timestamp(start)
    IN  RoundHalfEven(timestamp(start) * RandDen + k * diff, RandDen)

\* ----------------------------------------------------------- identifiers
\* Mutant of order_gen_segment: drawn from the mixed-case alphabet.
order_gen_segment_mixed(ds) == choices(ALL_ALPHA_NUMERIC, ds)

\* order_ids.gen_segment(n), n = Len(ds).
order_gen_segment(ds) == choices(UPPER_ALPHA_NUMERIC, ds)
\* The draws i .. j of ds.
Draws(ds, i, j) == SubSeq(ds, i, j)
\* gen_order_id(): f"{gen_segment(6)}-{gen_segment(5)}-{gen_segment(6)}",
\* the 17 draws of ds taken in order.
gen_order_id(ds) ==
    order_gen_segment(Draws(ds, 1, 6)) \o <<"-">>
    \o order_gen_segment(Draws(ds, 7, 11)) \o <<"-">>
    \o order_gen_segment(Draws(ds, 12, 17))
\* transfer_ids.gen_segment(n), n = Len(ds).
transfer_gen_segment(ds) == choices(ALL_ALPHA_NUMERIC, ds)
\* Mutant of gen_transfer_id: the second segment one character short.
gen_transfer_id_short(ds) ==
    choices(ALL_ALPHA_NUMERIC, Draws(ds, 1, 7)) \o <<"-">>
    \o choices(ALL_ALPHA_NUMERIC, Draws(ds, 8, 28))

\* One element of gen_random_kraken_transfer_identifiers:
\* f"{gen_segment(7)}-{gen_segment(22)}", the 29 draws of ds taken in order.
gen_transfer_id(ds) ==
    transfer_gen_segment(Draws(ds, 1, 7)) \o <<"-">>
    \o transfer_gen_segment(Draws(ds, 8, 29))

\* --------------------------------------------------------- closed orders
\* Mutant of ExecutedVolume: drawn from the whole volume range.
ExecutedVolumeOfRange(vol, k) == uniform(VOLUME_MIN, DecOfInt(VOLUME_MAX), k)
\* executed_volume = random.uniform(VOLUME_MIN, volume)
ExecutedVolume(vol, k) == uniform(VOLUME_MIN, vol, k)
\* Mutant of Cost: the sum in place of the product.
CostBySum(p, ev) == DecAdd(p, ev)
\* cost = price * executed_volume
Cost(p, ev) == DecMul(p, ev)
\* fee = 0.0026 * cost
Fee(c) == DecMul(FEE_RATE, c)
\* Mutant of Status: chosen among all order statuses.
StatusOfAll(k) == choice(ORDER_STATUSES, k)
\* status = random.choice(OVER_ORDER_STATUSES)
Status(k) == choice(OVER_ORDER_STATUSES, k)
\* "User requested" if status == "canceled" else None
Reason(status) == IF status = "canceled" THEN "User requested" ELSE None
\* The text of a numeric field of the record.
Field(x, decimals) == format(x, decimal_formatter(decimals))

\* The dictionary gen_random_closed_order returns.
ClosedOrder(o, e, p, vol, ev, c, f, decimals, status) ==
    [ refid      |-> "None",
      userref    |-> 1,
      status     |-> status,
      reason     |-> Reason(status),
      opentm     |-> o,
      closetm    |-> e,
      starttm    |-> 0,
      expiretm   |-> 0,
      descr      |-> <<>>,
      vol        |-> Field(vol, decimals),
      vol_exec   |-> Field(ev, decimals),
      cost       |-> Field(c, decimals),
      fee        |-> Field(f, decimals),
      price      |-> Field(p, decimals),
      stopprice  |-> <<"0", ".", "0", "0", "0", "0", "0">>,
      limitprice |-> <<"0", ".", "0", "0", "0", "0", "0">>,
      misc       |-> <<>>,
      oflags     |-> "fciq",
      trigger    |-> "index" ]

\* gen_random_closed_order() as a function of its seven draws, in the
\* order the code makes them.
gen_random_closed_order(ds) ==
    LET o   == gen_random_timestamp(START, END, ds[1])
        e   == gen_random_timestamp(fromtimestamp(o), END, ds[2])
        p   == uniform(PRICE_MIN, DecOfInt(PRICE_MAX), ds[3])
        vol == uniform(VOLUME_MIN, DecOfInt(VOLUME_MAX), ds[4])
        ev  == ExecutedVolume(vol, ds[5])
        c   == Cost(p, ev)
        f   == Fee(c)
    IN  ClosedOrder(o, e, p, vol, ev, c, f, randint(3, 8, ds[6]), Status(ds[7]))

\* ------------------------------------------------------------------ state
VARIABLES
    pc,               \* the position of the running program
    open, end,        \* gen_random_closed_order: the two timestamps (ticks)
    price, volume, executed_volume, cost, fee,   \* its decimals
    decimals,         \* its chosen precision
    order,            \* the record it returned
    start_arg, end_arg, draw, ts,   \* gen_random_timestamp: arguments, draw, result
    kind, n, ids,     \* the identifier list generators: which, count, list so far
    i, orders         \* closed_orders __main__: iteration, dictionary

orderVars == <<open, end, price, volume, executed_volume, cost, fee, decimals, order>>
tsVars == <<start_arg, end_arg, draw, ts>>
idVars == <<kind, n, ids>>
mainVars == <<i, orders>>
vars == <<pc, orderVars, tsVars, idVars, mainVars>>

Zero == Decimal(<<>>, 0)
OrderIdle ==
    /\ open = 0 /\ end = 0
    /\ price = Zero /\ volume = Zero /\ executed_volume = Zero
    /\ cost = Zero /\ fee = Zero
    /\ decimals = 0 /\ order = None
TsIdle == start_arg = 0 /\ end_arg = 0 /\ draw = 0 /\ ts = 0
IdIdle == kind = None /\ n = 0 /\ ids = <<>>
MainIdle == i = 0 /\ orders = <<>>

\* ------------------------------------------ gen_random_closed_order, by line
Init == pc = "open" /\ OrderIdle /\ TsIdle /\ IdIdle /\ MainIdle

\* open = gen_random_timestamp(START, END)
DrawOpen ==
    /\ pc = "open"
    /\ \E k \in RandDraws : open' = gen_random_timestamp(START, END, k)
    /\ pc' = "end"
    /\ UNCHANGED <<end, price, volume, executed_volume, cost, fee, decimals, order>>
    /\ UNCHANGED <<tsVars, idVars, mainVars>>

\* end = gen_random_timestamp(datetime.fromtimestamp(open), END)
DrawEnd ==
    /\ pc = "end"
    /\ \E k \in RandDraws : end' = gen_random_timestamp(fromtimestamp(open), END, k)
    /\ pc' = "price"
    /\ UNCHANGED <<open, price, volume, executed_volume, cost, fee, decimals, order>>
    /\ UNCHANGED <<tsVars, idVars, mainVars>>

\* price = random.uniform(PRICE_MIN, PRICE_MAX)
DrawPrice ==
    /\ pc = "price"
    /\ \E k \in RandDraws : price' = uniform(PRICE_MIN, DecOfInt(PRICE_MAX), k)
    /\ pc' = "volume"
    /\ UNCHANGED <<open, end, volume, executed_volume, cost, fee, decimals, order>>
    /\ UNCHANGED <<tsVars, idVars, mainVars>>

\* volume = random.uniform(VOLUME_MIN, VOLUME_MAX)
DrawVolume ==
    /\ pc = "volume"
    /\ \E k \in RandDraws : volume' = uniform(VOLUME_MIN, DecOfInt(VOLUME_MAX), k)
    /\ pc' = "executed"
    /\ UNCHANGED <<open, end, price, executed_volume, cost, fee, decimals, order>>
    /\ UNCHANGED <<tsVars, idVars, mainVars>>

\* executed_volume = random.uniform(VOLUME_MIN, volume); cost; fee
DrawExecuted ==
    /\ pc = "executed"
    /\ \E k \in RandDraws : executed_volume' = ExecutedVolume(volume, k)
    /\ cost' = Cost(price, executed_volume')
    /\ fee' = Fee(cost')
    /\ pc' = "decimals"
    /\ UNCHANGED <<open, end, price, volume, decimals, order>>
    /\ UNCHANGED <<tsVars, idVars, mainVars>>

\* decimals = random.randint(3, 8)
DrawDecimals ==
    /\ pc = "decimals"
    /\ \E k \in Random : decimals' = randint(3, 8, k)
    /\ pc' = "status"
    /\ UNCHANGED <<open, end, price, volume, executed_volume, cost, fee, order>>
    /\ UNCHANGED <<tsVars, idVars, mainVars>>

\* status = random.choice(OVER_ORDER_STATUSES); return {...}
Return ==
    /\ pc = "status"
    /\ \E k \in Random :
          order' = ClosedOrder(open, end, price, volume, executed_volume,
                               cost, fee, decimals, Status(k))
    /\ pc' = "done"
    /\ UNCHANGED <<open, end, price, volume, executed_volume, cost, fee, decimals>>
    /\ UNCHANGED <<tsVars, idVars, mainVars>>

Next ==
    \/ DrawOpen \/ DrawEnd \/ DrawPrice \/ DrawVolume
    \/ DrawExecuted \/ DrawDecimals \/ Return

Spec == Init /\ [][Next]_vars

\* --------------------------------------------------- gen_random_timestamp
\* A call gen_random_timestamp(start, end) with start <= end.
InitTimestamp ==
    /\ pc = "call"
    /\ start_arg \in 0 .. MaxUs /\ end_arg \in 0 .. MaxUs /\ start_arg <= end_arg
    /\ draw = 0 /\ ts = 0
    /\ OrderIdle /\ IdIdle /\ MainIdle

GenRandomTimestamp ==
    /\ pc = "call"
    /\ \E k \in Random :
          /\ draw' = k
          /\ ts' = gen_random_timestamp(start_arg, end_arg, k)
    /\ pc' = "done"
    /\ UNCHANGED <<start_arg, end_arg, orderVars, idVars, mainVars>>

NextTimestamp == GenRandomTimestamp
SpecTimestamp == InitTimestamp /\ [][NextTimestamp]_vars

\* ------------------------------------------- the identifier list generators
\* gen_random_kraken_identifiers(n) or gen_random_kraken_transfer_identifiers(n).
InitIdentifiers ==
    /\ pc = "loop"
    /\ kind \in {"order", "transfer"}
    /\ n \in 0 .. MaxCount
    /\ ids = <<>>
    /\ OrderIdle /\ TsIdle /\ MainIdle

\* One iteration of [gen_order_id() for _ in range(n)].
GenOrderIdentifier ==
    /\ pc = "loop" /\ kind = "order" /\ Len(ids) < n
    /\ \E ds \in DrawSeqs(17) : ids' = Append(ids, gen_order_id(ds))
    /\ UNCHANGED <<pc, kind, n, orderVars, tsVars, mainVars>>

\* One iteration of [f"{gen_segment(7)}-{gen_segment(22)}" for _ in range(n)].
GenTransferIdentifier ==
    /\ pc = "loop" /\ kind = "transfer" /\ Len(ids) < n
    /\ \E ds \in DrawSeqs(29) : ids' = Append(ids, gen_transfer_id(ds))
    /\ UNCHANGED <<pc, kind, n, orderVars, tsVars, mainVars>>

\* range(n) is exhausted: the list is returned.
ReturnIdentifiers ==
    /\ pc = "loop" /\ Len(ids) >= n
    /\ pc' = "done"
    /\ UNCHANGED <<kind, n, ids, orderVars, tsVars, mainVars>>

NextIdentifiers == GenOrderIdentifier \/ GenTransferIdentifier \/ ReturnIdentifiers
SpecIdentifiers == InitIdentifiers /\ [][NextIdentifiers]_vars

\* ---------------------------------------------------- closed_orders __main__
\* orders = {gen_order_id(): gen_random_closed_order() for _ in range(3)}
MainCount == 3
\* The dictionary d with d[key] = value: a new key is added, a present key
\* keeps its place and takes the new value.
DictSet(d, key, value) ==
    [k \in (DOMAIN d) \cup {key} |-> IF k = key THEN value ELSE d[k]]

InitMain ==
    /\ pc = "loop"
    /\ i = 0
    /\ orders = <<>>
    /\ OrderIdle /\ TsIdle /\ IdIdle

\* One iteration: the key's 17 draws, then the record's 7.
MainIteration ==
    /\ pc = "loop" /\ i < MainCount
    /\ \E ds \in DrawSeqs(24) :
          orders' = DictSet(orders, gen_order_id(SubSeq(ds, 1, 17)),
                            gen_random_closed_order(SubSeq(ds, 18, 24)))
    /\ i' = i + 1
    /\ UNCHANGED <<pc, orderVars, tsVars, idVars>>

\* print(json.dumps(orders, indent=4))
MainPrint ==
    /\ pc = "loop" /\ i = MainCount
    /\ pc' = "done"
    /\ UNCHANGED <<i, orders, orderVars, tsVars, idVars>>

NextMain == MainIteration \/ MainPrint
SpecMain == InitMain /\ [][NextMain]_vars

\* ================================================================= claims
Returned == pc = "done"
\* One unit of the last digit formatted with the record's precision.
Unit == Decimal(<<1>>, decimals)
Two == DecOfInt(2)
CostField == DecOfString(order.cost)
FeeField == DecOfString(order.fee)
PriceField == DecOfString(order.price)
VolField == DecOfString(order.vol)
VolExecField == DecOfString(order.vol_exec)

\* C1: every returned record has window start <= opentm <= closetm < window
\* end.  Stated as the claim states it; the code violates it (the
\* microsecond rounding of datetime.fromtimestamp can move the start of the
\* second draw below opentm, and the float sum can round up to END).
C1_CloseAfterOpenInWindow ==
    Returned =>
        /\ timestamp(START) <= order.opentm
        /\ order.opentm <= order.closetm
        /\ order.closetm < timestamp(END)

\* C2 as stated: for start <= end the result r of gen_random_timestamp lies
\* in the half-open interval, start <= r < end, the case start = end included.
C2_HalfOpenInterval ==
    Returned => timestamp(start_arg) <= ts /\ ts < timestamp(end_arg)

\* C2 as amended: for start <= end the result r lies in the closed
\* interval, start <= r <= end.
C2_ClosedInterval ==
    Returned => timestamp(start_arg) <= ts /\ ts <= timestamp(end_arg)

\* C2 witness: a call with start < end whose largest draw returned end itself.
C2_EndReached ==
    /\ Returned
    /\ start_arg < end_arg
    /\ draw = RandDen - 1
    /\ ts = timestamp(end_arg)

\* C3: in every returned record VOLUME_MIN <= executed_volume <= volume <=
\* VOLUME_MAX, and the fields vol_exec and vol, read as numbers, are in the
\* same order.
C3_ExecutedWithinVolume ==
    Returned =>
        /\ DecLeq(VOLUME_MIN, executed_volume)
        /\ DecLeq(executed_volume, volume)
        /\ DecLeq(volume, DecOfInt(VOLUME_MAX))
        /\ DecLeq(VolExecField, VolField)

\* C3 witness: a record executed only in part, and one whose fields show it.
C3_PartlyExecuted ==
    /\ Returned
    /\ DecLess(VOLUME_MIN, executed_volume)
    /\ DecLess(executed_volume, volume)
    /\ DecLess(VolExecField, VolField)

\* C4: the status of every returned record is canceled, closed or expired,
\* and its reason is "User requested" exactly when the status is canceled,
\* and None otherwise.
C4_TerminalStatusAndReason ==
    Returned =>
        /\ order.status \in {"canceled", "closed", "expired"}
        /\ (order.reason = "User requested") <=> (order.status = "canceled")
        /\ (order.status # "canceled") => (order.reason = None)

\* C4 witness: a canceled record carrying the reason.
C4_CanceledWithReason ==
    /\ Returned
    /\ order.status = "canceled"
    /\ order.reason = "User requested"

\* C5 as stated: the cost field is the price field times the vol_exec field
\* to within one unit of the last digit, and the fee field is 0.0026 times
\* the cost field to within one unit.
C5_CostOfFields ==
    Returned =>
        /\ DecLeq(DecDist(CostField, DecMul(PriceField, VolExecField)), Unit)
        /\ DecLeq(DecDist(FeeField, DecMul(FEE_RATE, CostField)), Unit)

\* C5 as amended: the cost field is the product of the unrounded price and
\* executed volume to within one unit of the last digit; it is the product
\* of the price and vol_exec fields only to within (price + vol_exec + 2) / 2
\* units; the fee field is 0.0026 times the cost field to within one unit.
C5_CostOfUnroundedValues ==
    Returned =>
        /\ DecLeq(DecDist(CostField, DecMul(price, executed_volume)), Unit)
        /\ DecLeq(DecMul(Two, DecDist(CostField, DecMul(PriceField, VolExecField))),
                  DecMul(DecAdd(DecAdd(PriceField, VolExecField), Two), Unit))
        /\ DecLeq(DecDist(FeeField, DecMul(FEE_RATE, CostField)), Unit)

\* C5 witness: a record whose cost field is more than one unit away from
\* the product of its price and vol_exec fields.
C5_FieldsProductOff ==
    /\ Returned
    /\ DecLess(Unit, DecDist(CostField, DecMul(PriceField, VolExecField)))

\* C6 as stated: vol, vol_exec, cost, fee, price, stopprice and limitprice
\* all carry the record's precision, a number of 3 .. 8, as their number of
\* decimal digits.
C6_SevenFieldsSamePrecision ==
    Returned =>
        /\ decimals \in 3 .. 8
        /\ \A f \in {"vol", "vol_exec", "cost", "fee", "price", "stopprice", "limitprice"} :
              DecimalsOf(order[f]) = decimals

\* C6 as amended: vol, vol_exec, cost, fee and price carry the record's
\* precision, a number of 3 .. 8; stopprice and limitprice always carry 5
\* decimal digits.
C6_FiveFieldsSamePrecision ==
    Returned =>
        /\ decimals \in 3 .. 8
        /\ \A f \in {"vol", "vol_exec", "cost", "fee", "price"} :
              DecimalsOf(order[f]) = decimals
        /\ DecimalsOf(order.stopprice) = 5
        /\ DecimalsOf(order.limitprice) = 5

\* C6 witness: a record of precision 8, where stopprice differs.
C6_PrecisionEight ==
    /\ Returned
    /\ decimals = 8
    /\ DecimalsOf(order.cost) = 8
    /\ DecimalsOf(order.stopprice) # 8

\* The characters of the patterns [A-Z0-9] and [A-Za-z0-9].
UpperChars ==
    { "A", "B", "C", "D", "E", "F", "G", "H", "I", "J", "K", "L", "M",
      "N", "O", "P", "Q", "R", "S", "T", "U", "V", "W", "X", "Y", "Z" }
LowerChars ==
    { "a", "b", "c", "d", "e", "f", "g", "h", "i", "j", "k", "l", "m",
      "n", "o", "p", "q", "r", "s", "t", "u", "v", "w", "x", "y", "z" }
DigitCharSet == {"0", "1", "2", "3", "4", "5", "6", "7", "8", "9"}
\* s consists of segments of the lengths lens, of characters of cs, with
\* one dash between two segments.
RECURSIVE MatchesSegments(_, _, _)
MatchesSegments(s, lens, cs) ==
    IF lens = <<>> THEN s = <<>>
    ELSE /\ Len(s) >= Head(lens)
         /\ \A j \in 1 .. Head(lens) : s[j] \in cs
         /\ IF Len(lens) = 1 THEN Len(s) = Head(lens)
            ELSE /\ Len(s) > Head(lens)
                 /\ s[Head(lens) + 1] = "-"
                 /\ MatchesSegments(SubSeq(s, Head(lens) + 2, Len(s)), Tail(lens), cs)

\* C7: every identifier of gen_random_kraken_identifiers(n), each a result
\* of gen_order_id, matches [A-Z0-9]{6}-[A-Z0-9]{5}-[A-Z0-9]{6}, and the
\* returned list has exactly n elements.
C7_OrderIdPattern ==
    kind = "order" =>
        /\ \A j \in 1 .. Len(ids) :
              MatchesSegments(ids[j], <<6, 5, 6>>, UpperChars \cup DigitCharSet)
        /\ Returned => Len(ids) = n

\* C7 witness: a returned list of two different order identifiers.
C7_TwoOrderIds ==
    /\ Returned
    /\ kind = "order"
    /\ n = 2
    /\ Len(ids) = 2
    /\ ids[1] # ids[2]

\* C8: every identifier of gen_random_kraken_transfer_identifiers(n) matches
\* [A-Za-z0-9]{7}-[A-Za-z0-9]{22}, and the returned list has exactly n
\* elements.
C8_TransferIdPattern ==
    kind = "transfer" =>
        /\ \A j \in 1 .. Len(ids) :
              MatchesSegments(ids[j], <<7, 22>>,
                              UpperChars \cup LowerChars \cup DigitCharSet)
        /\ Returned => Len(ids) = n

\* C8 witness: a returned list of two transfer identifiers, the first with
\* a lower-case letter.
C8_TwoTransferIds ==
    /\ Returned
    /\ kind = "transfer"
    /\ n = 2
    /\ Len(ids) = 2
    /\ \E j \in 1 .. Len(ids[1]) : ids[1][j] \in LowerChars

\* C9: the dictionary the program prints has exactly 3 entries, whatever
\* the three identifier draws.  Stated as the claim states it; the code
\* violates it when two of the drawn identifiers are equal.
C9_ThreeEntries ==
    Returned => Cardinality(DOMAIN orders) = 3

===========================================================================
